---- MODULE Spec2Model ----
(***************************************************************************)
(* A model of the HIL native diagnostic kernel                             *)
(*   src/hil/core/native/hilbert_native.c, hilbert_native.h                *)
(*   src/hil/core/native/hilbert_math.c,   hilbert_math.h                  *)
(*                                                                         *)
(* The heap is a map from block names to blocks; a pointer is a block name *)
(* or "NULL".  The caller's structures (g, f, vec, mat) hold pointers to   *)
(* the caller's blocks S, D, W, F, V, M, O; the blocks a call allocates    *)
(* for itself are deg, offset, adj, cur, seen, queue (connected            *)
(* components), edeg (entropy), centroid (coherence) and T (the private    *)
(* copy of stability).  A structure argument is passed as "NULL" (absent)  *)
(* or by the name of the structure ("g", "f", "tmp", "vec", "mat").        *)
(*                                                                         *)
(* A double is a record [cls, v]: a finite value v, +infinity or NaN.      *)
(* Field coordinates are records [num, nsq] standing for num / sqrt(nsq),  *)
(* counted in units of the stability epsilon (1e-6), so that a non-zero    *)
(* norm is always larger than HIL_EPS (1e-12).  A floating-point result    *)
(* that has no exact integer value (coherence, entropy, stability) is      *)
(* represented by the expression the code computes it from.                *)
(***************************************************************************)
EXTENDS Integers, Sequences, FiniteSets, TLC

VARIABLES
    g,        \* the caller's hil_graph_t
    f,        \* the caller's hil_field_t (its coordinates matrix)
    vec,      \* the caller's hil_vector_t
    mat,      \* the caller's hil_matrix_t
    mem,      \* the heap: block name -> [live, cells]
    pc,       \* position of the running call, "idle" between calls
    cc,       \* locals of hil_graph_connected_components
    en,       \* locals of hil_graph_entropy
    co,       \* locals of hil_field_coherence
    pt,       \* locals of hil_field_perturb
    st,       \* locals of hil_epistemic_stability
    ret,      \* the last call that returned: [op, arg, val]
    hs,       \* malloc/calloc and free counts of the running call
    fault,    \* memory faults seen so far (set of tags)
    answers,  \* the allocator's answers to the running call, in order
    det,      \* the first result kept of one watched diagnostic
    snap      \* the caller's structures and blocks at call entry

vars == <<g, f, vec, mat, mem, pc, cc, en, co, pt, st, ret, hs, fault,
          answers, det, snap>>

----------------------------------------------------------------------------
(* Bounds of the model                                                     *)

MaxNodes == 3
MaxEdges == 3
InMaxNodes == 2
InMaxEdges == 2
MaxRows == 2
MaxCols == 2
MaxLen == 2

----------------------------------------------------------------------------
(* Doubles                                                                 *)

Fin(x) == [cls |-> "fin", v |-> x]
PosInf == [cls |-> "inf", v |-> 0]
NaN == [cls |-> "nan", v |-> 0]

\* <math.h> isfinite
isfinite(w) == w.cls = "fin"

\* w < 0.0 (false for NaN and +infinity)
DNeg(w) == w.cls = "fin" /\ w.v < 0

\* a + b on doubles
DAdd(a, b) ==
    IF a.cls = "nan" \/ b.cls = "nan" THEN NaN
    ELSE IF a.cls = "inf" \/ b.cls = "inf" THEN PosInf
    ELSE Fin(a.v + b.v)

\* an exact quotient p / q of two non-negative integers, q > 0
Rat(p, q) == [num |-> p, den |-> q]

----------------------------------------------------------------------------
(* The heap                                                                *)

CallerBlocks == {"S", "D", "W", "F", "V", "M", "O"}
CallBlocks == {"deg", "offset", "adj", "cur", "seen", "queue", "edeg",
               "centroid", "T"}
Blocks == CallerBlocks \cup CallBlocks

NoBlock == [live |-> FALSE, cells |-> <<>>]
Block(cells) == [live |-> TRUE, cells |-> cells]

\* a sequence of n copies of x
Fill(n, x) == [i \in 1..n |-> x]

\* the content of memory malloc returns: indeterminate (an integer cell, a
\* double, a coordinate)
Uninit == -1
UninitD == [cls |-> "uninit", v |-> 0]
UninitC == [num |-> 0, nsq |-> 0]

EmptyMem == [b \in Blocks |-> NoBlock]


----------------------------------------------------------------------------
(* Caller structures                                                       *)

\* hil_graph_t with no nodes, no edges and no arrays
ZeroGraph == [num_nodes |-> 0, num_edges |-> 0,
              src |-> "NULL", dst |-> "NULL", weight |-> "NULL"]
\* hil_matrix_t / hil_field_t.coordinates with no buffer
ZeroMatrix == [data |-> "NULL", rows |-> 0, cols |-> 0]
\* hil_vector_t with no buffer
ZeroVector == [data |-> "NULL", length |-> 0]

SrcAt(G, m, e) == m[G.src].cells[e + 1]
DstAt(G, m, e) == m[G.dst].cells[e + 1]
WeightAt(G, m, e) == m[G.weight].cells[e + 1]

----------------------------------------------------------------------------
(* Graph integrity and basic structure                                     *)

\* the validation loop without the test for a negative weight
RECURSIVE ValidateNoSign(_, _, _)
ValidateNoSign(G, m, e) ==
    IF e >= G.num_edges THEN 1
    ELSE IF SrcAt(G, m, e) >= G.num_nodes THEN 0
    ELSE IF DstAt(G, m, e) >= G.num_nodes THEN 0
    ELSE IF ~isfinite(WeightAt(G, m, e)) THEN 0
    ELSE ValidateNoSign(G, m, e + 1)

\* the for loop of hil_graph_validate from edge e on
RECURSIVE ValidateLoop(_, _, _)
ValidateLoop(G, m, e) ==
    IF e >= G.num_edges THEN 1
    ELSE LET s == SrcAt(G, m, e)
             d == DstAt(G, m, e)
             w == WeightAt(G, m, e)
         IN  IF s >= G.num_nodes THEN 0
             ELSE IF d >= G.num_nodes THEN 0
             ELSE IF ~isfinite(w) THEN 0
             ELSE IF DNeg(w) THEN 0
             ELSE ValidateLoop(G, m, e + 1)

hil_graph_validate(gp, G, m) ==
    IF gp = "NULL" THEN 0
    ELSE IF G.num_nodes = 0 THEN 0
    ELSE IF G.num_edges > 0
            /\ (G.src = "NULL" \/ G.dst = "NULL" \/ G.weight = "NULL") THEN 0
    ELSE ValidateLoop(G, m, 0)

\* out_degree[i] = 0.0 for all i < n
DegreeZero(out, n) == [i \in DOMAIN out |-> IF i <= n THEN Fin(0) ELSE out[i]]

\* the accumulation loop of hil_graph_degree from edge e on
RECURSIVE DegreeLoop(_, _, _, _)
DegreeLoop(G, m, out, e) ==
    IF e >= G.num_edges THEN out
    ELSE LET s == SrcAt(G, m, e)
             d == DstAt(G, m, e)
             w == WeightAt(G, m, e)
             o1 == [out EXCEPT ![s + 1] = DAdd(@, w)]
             o2 == [o1 EXCEPT ![d + 1] = DAdd(@, w)]
         IN  DegreeLoop(G, m, o2, e + 1)

\* hil_graph_degree without the zeroing loop
DegreeNoZero(gp, op, G, m, out) ==
    IF gp = "NULL" \/ op = "NULL" THEN out ELSE DegreeLoop(G, m, out, 0)

\* hil_graph_degree: the cells of the out_degree buffer after the call
hil_graph_degree(gp, op, G, m, out) ==
    IF gp = "NULL" \/ op = "NULL" THEN out
    ELSE DegreeLoop(G, m, DegreeZero(out, G.num_nodes), 0)

----------------------------------------------------------------------------
(* Structural diagnostics                                                  *)

\* hil_graph_density without the clamp to [0, 1]
DensityNoClamp(gp, G) ==
    IF gp = "NULL" THEN Rat(0, 1)
    ELSE IF G.num_nodes <= 1 THEN Rat(0, 1)
    ELSE Rat(G.num_edges, (G.num_nodes * (G.num_nodes - 1)) \div 2)

hil_graph_density(gp, G) ==
    IF gp = "NULL" THEN Rat(0, 1)
    ELSE LET n == G.num_nodes IN
         IF n <= 1 THEN Rat(0, 1)
         ELSE LET max_e == (n * (n - 1)) \div 2
                  e == G.num_edges
              IN  IF max_e <= 0 THEN Rat(0, 1)
                  ELSE IF e > max_e THEN Rat(1, 1)
                  ELSE Rat(e, max_e)

----------------------------------------------------------------------------
(* Idle values of the locals and of the bookkeeping                        *)

DZero == [k |-> "zero"]

CcIdle == [gp |-> "NULL", n |-> 0, m |-> 0,
           deg |-> "NULL", offset |-> "NULL", adj |-> "NULL", cur |-> "NULL",
           seen |-> "NULL", queue |-> "NULL",
           e |-> 0, i |-> 0, qh |-> 0, qt |-> 0, k |-> 0, v |-> 0, comps |-> 0]
EnIdle == [gp |-> "NULL", deg |-> "NULL", sum_deg |-> 0]
CoIdle == [field |-> "NULL", back |-> "idle", centroid |-> "NULL", val |-> DZero]
PtIdle == [field |-> "NULL", back |-> "idle", epsilon |-> 0, r |-> 0]
StIdle == [field |-> "NULL", graph |-> "NULL", tmp |-> ZeroMatrix,
           C0 |-> DZero, C1 |-> DZero]
NoRet == [op |-> "none", arg |-> "NULL", val |-> 0]
NoStat == [nalloc |-> 0, nfree |-> 0]
DetOff == [on |-> FALSE, watch |-> "none", have |-> FALSE, arg |-> "NULL",
           ans |-> <<>>, val |-> 0, inp |-> <<>>, again |-> FALSE]

\* the caller's structures and blocks, as a call finds them
Caller(G, F, V, M, m) ==
    [g |-> G, f |-> F, vec |-> V, mat |-> M,
     mem |-> [b \in CallerBlocks |-> m[b]]]

IdleLocals ==
    /\ pc = "idle"
    /\ cc = CcIdle /\ en = EnIdle /\ co = CoIdle /\ pt = PtIdle /\ st = StIdle
    /\ ret = NoRet /\ hs = NoStat /\ fault = {} /\ answers = <<>>

UnchangedLocals == UNCHANGED <<cc, en, co, pt, st, hs, fault, answers>>

----------------------------------------------------------------------------
(* Specification SpecInput: validation, degree and density on arbitrary    *)
(* edge lists, malformed ones included                                     *)

InIndex == 0..InMaxNodes
InWeights == {Fin(-1), Fin(0), Fin(1), PosInf, NaN}
PriorDegrees == {Fin(0), Fin(7)}

InStructs ==
    {[num_nodes |-> n, num_edges |-> k, src |-> sp, dst |-> dp, weight |-> wp] :
        n \in 0..InMaxNodes, k \in 0..InMaxEdges,
        sp \in {"NULL", "S"}, dp \in {"NULL", "D"}, wp \in {"NULL", "W"}}

\* the caller's array behind pointer p: k cells drawn from vals
ArraysOf(p, k, vals) == IF p = "NULL" THEN {<<>>} ELSE [1..k -> vals]
BlockOf(p, cells) == IF p = "NULL" THEN NoBlock ELSE Block(cells)

InitInput ==
    /\ \E G \in InStructs :
        \E sc \in ArraysOf(G.src, G.num_edges, InIndex),
           dc \in ArraysOf(G.dst, G.num_edges, InIndex),
           wc \in ArraysOf(G.weight, G.num_edges, InWeights) :
            /\ g = G
            /\ mem = [EmptyMem EXCEPT !["S"] = BlockOf(G.src, sc),
                                      !["D"] = BlockOf(G.dst, dc),
                                      !["W"] = BlockOf(G.weight, wc)]
    /\ f = ZeroMatrix /\ vec = ZeroVector /\ mat = ZeroMatrix
    /\ IdleLocals
    /\ det = DetOff
    /\ snap = Caller(g, f, vec, mat, mem)

\* a call of hil_graph_validate(gp)
CallValidate ==
    /\ pc = "idle"
    /\ \E gp \in {"NULL", "g"} :
        ret' = [op |-> "validate", arg |-> gp,
                val |-> hil_graph_validate(gp, g, mem)]
    /\ snap' = Caller(g, f, vec, mat, mem)
    /\ UNCHANGED <<g, f, vec, mat, mem, pc, det>>
    /\ UnchangedLocals

\* a call of hil_graph_degree(gp, op) by a caller that keeps the contract:
\* the graph validated, out_degree of length num_nodes holding anything
CallDegree ==
    /\ pc = "idle"
    /\ \E gp \in {"NULL", "g"}, op \in {"NULL", "O"}, prior \in PriorDegrees :
        /\ gp = "g" /\ op = "O" => hil_graph_validate(gp, g, mem) = 1
        /\ LET before == [mem EXCEPT !["O"] = Block(Fill(g.num_nodes, prior))]
               after == hil_graph_degree(gp, op, g, before, before["O"].cells)
           IN  /\ snap' = Caller(g, f, vec, mat, before)
               /\ mem' = [before EXCEPT !["O"] = Block(after)]
               /\ ret' = [op |-> "degree", arg |-> <<gp, op>>, val |-> after]
    /\ UNCHANGED <<g, f, vec, mat, pc, det>>
    /\ UnchangedLocals

\* a call of hil_graph_density(gp)
CallDensity ==
    /\ pc = "idle"
    /\ \E gp \in {"NULL", "g"} :
        ret' = [op |-> "density", arg |-> gp, val |-> hil_graph_density(gp, g)]
    /\ snap' = Caller(g, f, vec, mat, mem)
    /\ UNCHANGED <<g, f, vec, mat, mem, pc, det>>
    /\ UnchangedLocals

NextInput == CallValidate \/ CallDegree \/ CallDensity

SpecInput == InitInput /\ [][NextInput]_vars

----------------------------------------------------------------------------
(* Claims checked under SpecInput                                          *)

\* the caller's graph and its edge arrays are as the call found them
GraphUntouched ==
    /\ g = snap.g
    /\ \A b \in {"S", "D", "W"} : mem[b] = snap.mem[b]

\* the rejection conditions of validate, as the specification lists them
Rejected(gp) ==
    \/ gp = "NULL"
    \/ g.num_nodes = 0
    \/ g.num_edges > 0 /\ (g.src = "NULL" \/ g.dst = "NULL" \/ g.weight = "NULL")
    \/ \E e \in 0..(g.num_edges - 1) :
          \/ SrcAt(g, mem, e) >= g.num_nodes
          \/ DstAt(g, mem, e) >= g.num_nodes
          \/ WeightAt(g, mem, e).cls # "fin"
          \/ WeightAt(g, mem, e).v < 0

\* C1: hil_graph_validate returns 0 exactly for the graphs that are absent,
\* have no nodes, have edges but lack one of the three edge arrays, hold an
\* index >= num_nodes or hold a negative or non-finite weight; it returns 1
\* for every other graph; and it leaves the graph and its arrays unchanged.
C1_Validate ==
    ret.op = "validate" =>
        /\ ret.val = (IF Rejected(ret.arg) THEN 0 ELSE 1)
        /\ GraphUntouched

\* an accepted graph with a full edge list, a self-loop among the edges
C1_Witness ==
    /\ ret.op = "validate" /\ ret.val = 1
    /\ g.num_edges = InMaxEdges
    /\ \E e \in 0..(g.num_edges - 1) : SrcAt(g, mem, e) = DstAt(g, mem, e)

\* the sum of xs[i].v over a sequence of finite doubles
RECURSIVE SumV(_)
SumV(xs) == IF xs = <<>> THEN 0 ELSE Head(xs).v + SumV(Tail(xs))

\* the weight edge e gives to node i: once per end of the edge that is i
Contribution(e, i) ==
    (IF SrcAt(g, mem, e) = i THEN WeightAt(g, mem, e).v ELSE 0)
    + (IF DstAt(g, mem, e) = i THEN WeightAt(g, mem, e).v ELSE 0)

RECURSIVE NodeDegree(_, _)
NodeDegree(i, e) ==
    IF e >= g.num_edges THEN 0 ELSE Contribution(e, i) + NodeDegree(i, e + 1)

\* C8: on a validated graph hil_graph_degree overwrites all num_nodes entries
\* of out: entry i ends as the sum of the weights of the edges leaving i plus
\* those of the edges entering i (a self-loop counts twice), whatever out
\* held before, so the entries sum to twice the total edge weight.
C8_DegreeSum ==
    ret.op = "degree" /\ ret.arg = <<"g", "O">> =>
        LET out == mem["O"].cells IN
        /\ Len(out) = g.num_nodes
        /\ \A i \in 0..(g.num_nodes - 1) : out[i + 1] = Fin(NodeDegree(i, 0))
        /\ SumV(out) = 2 * SumV(mem["W"].cells)

\* degree ran over a buffer holding old non-zero values, on a graph with a
\* self-loop of positive weight
C8_Witness ==
    /\ ret.op = "degree" /\ ret.arg = <<"g", "O">>
    /\ snap.mem["O"].cells # <<>> /\ snap.mem["O"].cells[1] = Fin(7)
    /\ \E e \in 0..(g.num_edges - 1) :
          /\ SrcAt(g, mem, e) = DstAt(g, mem, e)
          /\ WeightAt(g, mem, e).v > 0

\* C10: hil_graph_density returns 0 for an absent graph or num_nodes <= 1 and
\* otherwise min(1, num_edges / (n*(n-1)/2)); the result lies in [0, 1] for
\* every graph, and is 1 once num_edges reaches n*(n-1)/2.
C10_Density ==
    ret.op = "density" =>
        LET r == ret.val
            n == g.num_nodes
        IN  /\ r.den > 0 /\ 0 <= r.num /\ r.num <= r.den
            /\ ret.arg = "NULL" \/ n <= 1 => r.num = 0
            /\ ret.arg = "g" /\ n > 1 =>
                  IF 2 * g.num_edges >= n * (n - 1)
                  THEN r.num = r.den
                  ELSE r.num * n * (n - 1) = 2 * g.num_edges * r.den

\* density of a graph with more edges than a simple graph can hold
C10_Witness ==
    /\ ret.op = "density" /\ ret.arg = "g"
    /\ g.num_nodes > 1
    /\ 2 * g.num_edges > g.num_nodes * (g.num_nodes - 1)

----------------------------------------------------------------------------
(* malloc, calloc, free and the accesses to heap blocks                    *)

HeapNow == [mem |-> mem, hs |-> hs, fault |-> fault]

SetHeap(H) == mem' = H.mem /\ hs' = H.hs /\ fault' = H.fault

\* the answers the allocator may give to a request of `size` cells: a
\* buffer, a null pointer for lack of memory, and for a request of size 0
\* the null pointer the C standard lets malloc return for it
AllocAnswers(size) ==
    {"buf", "oom"} \cup (IF size = 0 THEN {"null0"} ELSE {})

\* the pointer malloc/calloc returns for block b under answer ans
Ptr(b, ans) == IF ans = "buf" THEN b ELSE "NULL"

\* the heap after malloc/calloc answered ans for block b with content cells
AllocH(H, b, ans, cells) ==
    IF ans # "buf" THEN H
    ELSE [mem |-> [H.mem EXCEPT ![b] = Block(cells)],
          hs |-> [H.hs EXCEPT !.nalloc = @ + 1],
          fault |-> IF H.mem[b].live THEN H.fault \cup {"leak"} ELSE H.fault]

\* free(p): nothing for a null pointer; a block that is not live is a fault
FreeH(H, p) ==
    IF p = "NULL" THEN H
    ELSE IF H.mem[p].live
    THEN [mem |-> [H.mem EXCEPT ![p] = NoBlock],
          hs |-> [H.hs EXCEPT !.nfree = @ + 1],
          fault |-> H.fault]
    ELSE [H EXCEPT !.fault = @ \cup {"double free"}]

\* free(ps[1]); free(ps[2]); ...
RECURSIVE FreeAll(_, _)
FreeAll(H, ps) == IF ps = <<>> THEN H ELSE FreeAll(FreeH(H, Head(ps)), Tail(ps))

\* the faults of reading or writing cell i (from 0) of the block behind p
Bad(m, p, i) ==
    IF p = "NULL" \/ ~m[p].live THEN {"use after free"}
    ELSE IF i < 0 \/ i >= Len(m[p].cells) THEN {"out of bounds"}
    ELSE {}

\* the faults of reading cell i: also a cell never written
BadRead(m, p, i) ==
    IF Bad(m, p, i) # {} THEN Bad(m, p, i)
    ELSE IF m[p].cells[i + 1] = Uninit THEN {"uninitialised read"}
    ELSE {}

Cell(m, p, i) == m[p].cells[i + 1]
Store(m, p, i, x) == [m EXCEPT ![p].cells[i + 1] = x]

----------------------------------------------------------------------------
(* Call entry and return                                                   *)

\* a top-level call starts: the bookkeeping of the previous call is dropped
Begin ==
    /\ pc = "idle"
    /\ snap' = Caller(g, f, vec, mat, mem)

\* a top-level call returns val; answers' are the allocator's answers to it.
\* The first result of the watched diagnostic is kept for later comparison,
\* with the structures and blocks it was computed from.
Finish(op, arg, val, ans) ==
    /\ pc' = "idle"
    /\ ret' = [op |-> op, arg |-> arg, val |-> val]
    /\ answers' = ans
    /\ cc' = CcIdle /\ en' = EnIdle /\ co' = CoIdle /\ pt' = PtIdle /\ st' = StIdle
    /\ det' = IF det.on /\ ~det.have /\ det.watch = op
           THEN [det EXCEPT !.have = TRUE, !.arg = arg, !.ans = ans,
                            !.val = val, !.inp = Caller(g, f, vec, mat, mem)]
           ELSE IF det.have /\ det.watch = op
           THEN [det EXCEPT !.again = TRUE]
           ELSE det

\* a memory fault stops the call where it is
Crash(tags) ==
    /\ pc' = "fault"
    /\ fault' = fault \cup tags
    /\ UNCHANGED <<g, f, vec, mat, mem, cc, en, co, pt, st, ret, hs, answers,
                   det, snap>>

----------------------------------------------------------------------------
(* hil_graph_connected_components, one action per allocation, per loop     *)
(* iteration and for the release                                           *)

\* what a step of the running call leaves alone besides mem, cc and pc
CcFrame == UNCHANGED <<g, f, vec, mat, en, co, pt, st, ret, hs, fault,
                       answers, det, snap>>

\* the caller keeps the contract: a graph with nodes was validated
Validated(gp) ==
    IF gp = "g" /\ g.num_nodes > 0 THEN hil_graph_validate(gp, g, mem) = 1
    ELSE TRUE

CallComponents ==
    /\ Begin
    /\ \E gp \in {"NULL", "g"} :
        /\ Validated(gp)
        /\ IF gp = "NULL" \/ g.num_nodes = 0
           THEN /\ Finish("components", gp, 0, <<>>)
                /\ hs' = NoStat
                /\ UNCHANGED <<g, f, vec, mat, mem, fault>>
           ELSE /\ pc' = "cc_deg"
                /\ cc' = [CcIdle EXCEPT !.gp = gp, !.n = g.num_nodes,
                                        !.m = g.num_edges]
                /\ ret' = NoRet /\ answers' = <<>> /\ hs' = NoStat
                /\ UNCHANGED <<g, f, vec, mat, mem, fault, en, co, pt, st, det>>

\* the call returns 0 after releasing ps (an allocation failed)
CcFail(H, ps, ans) ==
    /\ SetHeap(FreeAll(H, ps))
    /\ Finish("components", cc.gp, 0, Append(answers, ans))
    /\ UNCHANGED <<g, f, vec, mat, snap>>

\* an allocation succeeded: the call goes on at `next` with locals c
CcGoOn(H, c, next, ans) ==
    /\ SetHeap(H)
    /\ cc' = c /\ pc' = next
    /\ answers' = Append(answers, ans)
    /\ UNCHANGED <<g, f, vec, mat, en, co, pt, st, ret, det, snap>>

\* size_t *deg = calloc(n, sizeof(size_t)); if (!deg) return 0;
CcDeg ==
    /\ pc = "cc_deg"
    /\ \E ans \in AllocAnswers(cc.n) :
        LET H == AllocH(HeapNow, "deg", ans, Fill(cc.n, 0)) IN
        IF ans # "buf" THEN CcFail(H, <<>>, ans)
        ELSE CcGoOn(H, [cc EXCEPT !.deg = "deg", !.e = 0],
                    IF cc.m = 0 THEN "cc_offset" ELSE "cc_count", ans)

\* deg[s]++; deg[d]++;
CountEdge(m, degp, s, d) ==
    LET m1 == Store(m, degp, s, Cell(m, degp, s) + 1)
    IN  Store(m1, degp, d, Cell(m1, degp, d) + 1)

\* one iteration of the degree-count loop
CcCount ==
    /\ pc = "cc_count" /\ cc.e < cc.m
    /\ LET tags == Bad(mem, g.src, cc.e) \cup Bad(mem, g.dst, cc.e) IN
       IF tags # {} THEN Crash(tags)
       ELSE LET s == SrcAt(g, mem, cc.e)
                d == DstAt(g, mem, cc.e)
                inside == s < cc.n /\ d < cc.n
                tags2 == IF inside
                         THEN Bad(mem, cc.deg, s) \cup Bad(mem, cc.deg, d)
                         ELSE {}
            IN  IF tags2 # {} THEN Crash(tags2)
                ELSE /\ mem' = IF inside THEN CountEdge(mem, cc.deg, s, d) ELSE mem
                     /\ cc' = [cc EXCEPT !.e = @ + 1]
                     /\ pc' = IF cc.e + 1 = cc.m THEN "cc_offset" ELSE "cc_count"
                     /\ CcFrame

\* size_t *offset = malloc(sizeof(size_t) * (n + 1));
CcOffset ==
    /\ pc = "cc_offset"
    /\ \E ans \in AllocAnswers(cc.n + 1) :
        LET H == AllocH(HeapNow, "offset", ans, Fill(cc.n + 1, Uninit)) IN
        IF ans # "buf" THEN CcFail(H, <<cc.deg>>, ans)
        ELSE CcGoOn(H, [cc EXCEPT !.offset = "offset"], "cc_prefix", ans)

\* offset[0] = 0; offset[i + 1] = offset[i] + deg[i] for i < n
RECURSIVE PrefixSums(_, _, _)
PrefixSums(degs, i, acc) ==
    IF i > Len(degs) THEN acc
    ELSE PrefixSums(degs, i + 1, Append(acc, acc[i] + degs[i]))

CcPrefix ==
    /\ pc = "cc_prefix"
    /\ mem' = [mem EXCEPT ![cc.offset].cells = PrefixSums(mem[cc.deg].cells, 1, <<0>>)]
    /\ pc' = "cc_adj"
    /\ UNCHANGED cc
    /\ CcFrame

\* uint32_t *adj = malloc(sizeof(uint32_t) * offset[n]);
CcAdj ==
    /\ pc = "cc_adj"
    /\ LET size == Cell(mem, cc.offset, cc.n) IN
       \E ans \in AllocAnswers(size) :
        LET H == AllocH(HeapNow, "adj", ans, Fill(size, Uninit)) IN
        IF ans # "buf" THEN CcFail(H, <<cc.offset, cc.deg>>, ans)
        ELSE CcGoOn(H, [cc EXCEPT !.adj = "adj"], "cc_cur", ans)

\* size_t *cur = calloc(n, sizeof(size_t));
CcCur ==
    /\ pc = "cc_cur"
    /\ \E ans \in AllocAnswers(cc.n) :
        LET H == AllocH(HeapNow, "cur", ans, Fill(cc.n, 0)) IN
        IF ans # "buf" THEN CcFail(H, <<cc.adj, cc.offset, cc.deg>>, ans)
        ELSE CcGoOn(H, [cc EXCEPT !.cur = "cur", !.e = 0],
                    IF cc.m = 0 THEN "cc_freecur" ELSE "cc_fill", ans)

\* the position adj[offset[v] + cur[v]++] names
Slot(m, c, v) == Cell(m, c.offset, v) + Cell(m, c.cur, v)

\* adj[offset[s] + cur[s]++] = d;
FillOne(m, c, s, d) ==
    Store(Store(m, c.adj, Slot(m, c, s), d), c.cur, s, Cell(m, c.cur, s) + 1)

\* one iteration of the fill loop
CcFill ==
    /\ pc = "cc_fill" /\ cc.e < cc.m
    /\ LET tags == Bad(mem, g.src, cc.e) \cup Bad(mem, g.dst, cc.e) IN
       IF tags # {} THEN Crash(tags)
       ELSE LET s == SrcAt(g, mem, cc.e)
                d == DstAt(g, mem, cc.e)
                inside == s < cc.n /\ d < cc.n
                tags1 == IF inside THEN Bad(mem, cc.adj, Slot(mem, cc, s)) ELSE {}
                m1 == IF inside /\ tags1 = {} THEN FillOne(mem, cc, s, d) ELSE mem
                tags2 == IF inside THEN Bad(m1, cc.adj, Slot(m1, cc, d)) ELSE {}
            IN  IF tags1 \cup tags2 # {} THEN Crash(tags1 \cup tags2)
                ELSE /\ mem' = IF inside THEN FillOne(m1, cc, d, s) ELSE mem
                     /\ cc' = [cc EXCEPT !.e = @ + 1]
                     /\ pc' = IF cc.e + 1 = cc.m THEN "cc_freecur" ELSE "cc_fill"
                     /\ CcFrame

\* free(cur);
CcFreeCur ==
    /\ pc = "cc_freecur"
    /\ SetHeap(FreeH(HeapNow, cc.cur))
    /\ pc' = "cc_seen"
    /\ UNCHANGED <<g, f, vec, mat, cc, en, co, pt, st, ret, answers, det, snap>>

\* uint8_t *seen = calloc(n, sizeof(uint8_t));
CcSeen ==
    /\ pc = "cc_seen"
    /\ \E ans \in AllocAnswers(cc.n) :
        CcGoOn(AllocH(HeapNow, "seen", ans, Fill(cc.n, 0)),
               [cc EXCEPT !.seen = Ptr("seen", ans)], "cc_queue", ans)

\* uint32_t *queue = malloc(sizeof(uint32_t) * n);
\* if (!seen || !queue) { free(queue); free(seen); free(adj); ... return 0; }
CcQueue ==
    /\ pc = "cc_queue"
    /\ \E ans \in AllocAnswers(cc.n) :
        LET H == AllocH(HeapNow, "queue", ans, Fill(cc.n, Uninit))
            q == Ptr("queue", ans)
        IN  IF cc.seen = "NULL" \/ q = "NULL"
            THEN CcFail(H, <<q, cc.seen, cc.adj, cc.offset, cc.deg>>, ans)
            ELSE CcGoOn(H, [cc EXCEPT !.queue = q, !.comps = 0, !.i = 0],
                        "cc_outer", ans)

\* for (i = 0; i < n; i++) { if (seen[i]) continue; comps++;
\*     qh = 0, qt = 0; queue[qt++] = i; seen[i] = 1; ...
CcOuter ==
    /\ pc = "cc_outer"
    /\ IF cc.i >= cc.n
       THEN pc' = "cc_free" /\ UNCHANGED <<mem, cc>> /\ CcFrame
       ELSE LET tags == BadRead(mem, cc.seen, cc.i) IN
            IF tags # {} THEN Crash(tags)
            ELSE IF Cell(mem, cc.seen, cc.i) # 0
            THEN /\ cc' = [cc EXCEPT !.i = @ + 1]
                 /\ UNCHANGED <<mem, pc>> /\ CcFrame
            ELSE LET tags2 == Bad(mem, cc.queue, 0) IN
                 IF tags2 # {} THEN Crash(tags2)
                 ELSE /\ mem' = Store(Store(mem, cc.queue, 0, cc.i), cc.seen, cc.i, 1)
                      /\ cc' = [cc EXCEPT !.comps = @ + 1, !.qh = 0, !.qt = 1]
                      /\ pc' = "cc_while"
                      /\ CcFrame

\* while (qh < qt) { v = queue[qh++]; for (k = offset[v]; ...
CcWhile ==
    /\ pc = "cc_while"
    /\ IF cc.qh >= cc.qt
       THEN /\ cc' = [cc EXCEPT !.i = @ + 1]
            /\ pc' = "cc_outer"
            /\ UNCHANGED mem /\ CcFrame
       ELSE LET tags == BadRead(mem, cc.queue, cc.qh) IN
            IF tags # {} THEN Crash(tags)
            ELSE LET v == Cell(mem, cc.queue, cc.qh)
                     tags2 == BadRead(mem, cc.offset, v)
                 IN  IF tags2 # {} THEN Crash(tags2)
                     ELSE /\ cc' = [cc EXCEPT !.qh = @ + 1, !.v = v,
                                              !.k = Cell(mem, cc.offset, v)]
                          /\ pc' = "cc_inner"
                          /\ UNCHANGED mem /\ CcFrame

\* if (!seen[u]) { seen[u] = 1; } without queue[qt++] = u;
VisitNoEnqueue(m, c, u) ==
    IF Cell(m, c.seen, u) # 0 THEN [mem |-> m, qt |-> c.qt]
    ELSE [mem |-> Store(m, c.seen, u, 1), qt |-> c.qt]

\* if (!seen[u]) { queue[qt++] = u; } without seen[u] = 1;
VisitNoMark(m, c, u) ==
    IF Cell(m, c.seen, u) # 0 THEN [mem |-> m, qt |-> c.qt]
    ELSE [mem |-> Store(m, c.queue, c.qt, u), qt |-> c.qt + 1]

\* if (!seen[u]) { seen[u] = 1; queue[qt++] = u; }
Visit(m, c, u) ==
    IF Cell(m, c.seen, u) # 0 THEN [mem |-> m, qt |-> c.qt]
    ELSE [mem |-> Store(Store(m, c.seen, u, 1), c.queue, c.qt, u),
          qt |-> c.qt + 1]

\* for (k = offset[v]; k < offset[v + 1]; k++) { u = adj[k]; ... }
CcInner ==
    /\ pc = "cc_inner"
    /\ LET tags == BadRead(mem, cc.offset, cc.v + 1) IN
       IF tags # {} THEN Crash(tags)
       ELSE IF cc.k >= Cell(mem, cc.offset, cc.v + 1)
       THEN pc' = "cc_while" /\ UNCHANGED <<mem, cc>> /\ CcFrame
       ELSE LET tags2 == BadRead(mem, cc.adj, cc.k) IN
            IF tags2 # {} THEN Crash(tags2)
            ELSE LET u == Cell(mem, cc.adj, cc.k)
                     tags3 == BadRead(mem, cc.seen, u)
                     tags4 == IF tags3 = {} /\ Cell(mem, cc.seen, u) = 0
                              THEN Bad(mem, cc.queue, cc.qt) ELSE {}
                 IN  IF tags3 \cup tags4 # {} THEN Crash(tags3 \cup tags4)
                     ELSE LET r == Visit(mem, cc, u) IN
                          /\ mem' = r.mem
                          /\ cc' = [cc EXCEPT !.qt = r.qt, !.k = @ + 1]
                          /\ UNCHANGED pc /\ CcFrame

\* free(queue); free(seen); free(adj); free(offset); free(deg); return comps;
CcFree ==
    /\ pc = "cc_free"
    /\ SetHeap(FreeAll(HeapNow, <<cc.queue, cc.seen, cc.adj, cc.offset, cc.deg>>))
    /\ Finish("components", cc.gp, cc.comps, answers)
    /\ UNCHANGED <<g, f, vec, mat, snap>>

ComponentsStep ==
    \/ CcDeg \/ CcCount \/ CcOffset \/ CcPrefix \/ CcAdj \/ CcCur \/ CcFill
    \/ CcFreeCur \/ CcSeen \/ CcQueue \/ CcOuter \/ CcWhile \/ CcInner \/ CcFree

----------------------------------------------------------------------------
(* hil_graph_entropy                                                       *)

\* x <= HIL_EPS for a double counted in whole units
LeEps(x) == x.cls = "fin" /\ x.v <= 0

\* sum_deg += deg[i] over the whole array
RECURSIVE DSum(_)
DSum(xs) == IF xs = <<>> THEN Fin(0) ELSE DAdd(Head(xs), DSum(Tail(xs)))

\* the terms p_i = deg_i / sum_deg with p_i > HIL_EPS, in index order:
\* H is minus the sum of p_i * log(p_i) over them
RECURSIVE EntropyTerms(_, _)
EntropyTerms(degs, sum) ==
    IF degs = <<>> THEN <<>>
    ELSE (IF LeEps(Head(degs)) THEN <<>> ELSE <<Rat(Head(degs).v, sum.v)>>)
         \o EntropyTerms(Tail(degs), sum)

EnFrame == UNCHANGED <<g, f, vec, mat, cc, co, pt, st, ret, det, snap>>

CallEntropy ==
    /\ Begin
    /\ \E gp \in {"NULL", "g"} :
        /\ Validated(gp)
        /\ IF gp = "NULL" \/ g.num_nodes = 0
           THEN /\ Finish("entropy", gp, DZero, <<>>)
                /\ hs' = NoStat
                /\ UNCHANGED <<g, f, vec, mat, mem, fault>>
           ELSE /\ pc' = "en_alloc"
                /\ en' = [EnIdle EXCEPT !.gp = gp]
                /\ ret' = NoRet /\ answers' = <<>> /\ hs' = NoStat
                /\ UNCHANGED <<g, f, vec, mat, mem, fault, cc, co, pt, st, det>>

\* double *deg = malloc(sizeof(double) * num_nodes); if (!deg) return 0.0;
EnAlloc ==
    /\ pc = "en_alloc"
    /\ \E ans \in AllocAnswers(g.num_nodes) :
        LET H == AllocH(HeapNow, "edeg", ans, Fill(g.num_nodes, UninitD)) IN
        /\ SetHeap(H)
        /\ IF ans # "buf"
           THEN /\ Finish("entropy", en.gp, DZero, Append(answers, ans))
                /\ UNCHANGED <<g, f, vec, mat, snap>>
           ELSE /\ en' = [en EXCEPT !.deg = "edeg"]
                /\ pc' = "en_sum"
                /\ answers' = Append(answers, ans)
                /\ EnFrame

\* hil_graph_degree(graph, deg); sum_deg; if (sum_deg <= HIL_EPS) { free; return 0 }
EnSum ==
    /\ pc = "en_sum"
    /\ LET degs == hil_graph_degree(en.gp, en.deg, g, mem, mem[en.deg].cells)
           sum == DSum(degs)
       IN  IF LeEps(sum)
           THEN /\ SetHeap(FreeH(HeapNow, en.deg))
                /\ Finish("entropy", en.gp, DZero, answers)
                /\ UNCHANGED <<g, f, vec, mat, snap>>
           ELSE /\ mem' = [mem EXCEPT ![en.deg].cells = degs]
                /\ en' = [en EXCEPT !.sum_deg = sum]
                /\ pc' = "en_H"
                /\ UNCHANGED <<hs, fault, answers>>
                /\ EnFrame

\* the loop over p = deg[i] / sum_deg; free(deg); return H;
EnH ==
    /\ pc = "en_H"
    /\ LET tags == Bad(mem, en.deg, 0) IN
       IF tags # {} THEN Crash(tags)
       ELSE /\ SetHeap(FreeH(HeapNow, en.deg))
            /\ Finish("entropy", en.gp,
                      [k |-> "entropy",
                       terms |-> EntropyTerms(mem[en.deg].cells, en.sum_deg)],
                      answers)
            /\ UNCHANGED <<g, f, vec, mat, snap>>

EntropyStep == EnAlloc \/ EnSum \/ EnH

----------------------------------------------------------------------------
(* Release helpers                                                         *)

\* hil_vector_free that leaves vec->data pointing at the freed buffer
VectorFreeKeepsPointer(H, vp, V) ==
    IF vp = "NULL" THEN [heap |-> H, s |-> V]
    ELSE [heap |-> FreeH(H, V.data), s |-> [V EXCEPT !.length = 0]]

hil_vector_free(H, vp, V) ==
    IF vp = "NULL" THEN [heap |-> H, s |-> V]
    ELSE [heap |-> FreeH(H, V.data), s |-> [data |-> "NULL", length |-> 0]]

hil_matrix_free(H, mp, M) ==
    IF mp = "NULL" THEN [heap |-> H, s |-> M]
    ELSE [heap |-> FreeH(H, M.data),
          s |-> [data |-> "NULL", rows |-> 0, cols |-> 0]]

hil_graph_free(H, gp, G) ==
    IF gp = "NULL" THEN [heap |-> H, s |-> G]
    ELSE [heap |-> FreeAll(H, <<G.src, G.dst, G.weight>>),
          s |-> [num_nodes |-> 0, num_edges |-> 0,
                 src |-> "NULL", dst |-> "NULL", weight |-> "NULL"]]

\* hil_field_free that releases nothing
FieldFreeSkipped(H, fp, F) == [heap |-> H, s |-> F]

\* hil_field_free: hil_matrix_free(&field->coordinates)
hil_field_free(H, fp, F) ==
    IF fp = "NULL" THEN [heap |-> H, s |-> F]
    ELSE hil_matrix_free(H, "coordinates", F)

----------------------------------------------------------------------------
(* Vector kernels and the field diagnostics                                *)

CZero == [num |-> 0, nsq |-> 1]
Coord(x) == [num |-> x, nsq |-> 1]

\* the values a read of an indeterminate coordinate may give
Junk == {Coord(0), Coord(1)}

\* the field behind a hil_field_t pointer: the caller's, or stability's copy
FieldAt(fp) == IF fp = "tmp" THEN st.tmp ELSE f

\* the emptiness test without rows == 0
EmptyIgnoresRows(M) == M.data = "NULL" \/ M.cols = 0

\* !M.data || M.rows == 0 || M.cols == 0
Empty(M) == M.data = "NULL" \/ M.rows = 0 \/ M.cols = 0

\* row r (from 0) of a row-major matrix with `cols` columns
Row(cells, cols, r) == SubSeq(cells, r * cols + 1, (r + 1) * cols)

\* hil_det_sign: (idx & 1u) ? -1.0 : 1.0
hil_det_sign(idx) == IF idx % 2 = 1 THEN -1 ELSE 1

\* the square of hil_vec_norm(a, n), times the square of the row's divisor
RECURSIVE SumSq(_)
SumSq(a) == IF a = <<>> THEN 0 ELSE Head(a).num * Head(a).num + SumSq(Tail(a))

\* hil_vec_norm(a, n) as the quotient under its square root
NormSq(a) == Rat(SumSq(a), a[1].nsq)

\* hil_vec_zero left out
VecZeroSkipped(dst, n) == dst

\* hil_vec_zero(dst, n)
hil_vec_zero(dst, n) == [i \in DOMAIN dst |-> IF i <= n THEN CZero ELSE dst[i]]

\* what reading every cell of a buffer may give
Reads(cells) ==
    {r \in [DOMAIN cells -> Junk \cup {cells[i] : i \in DOMAIN cells}] :
        \A i \in DOMAIN cells :
            IF cells[i] = UninitC THEN r[i] \in Junk ELSE r[i] = cells[i]}

\* row[c] += epsilon * hil_det_sign(idx) for every column of row r
AddPattern(row, cols, r, epsilon) ==
    [c \in 1..cols |->
        [row[c] EXCEPT !.num = @ + epsilon * hil_det_sign(r * cols + (c - 1))]]

\* nrm = hil_vec_norm(row); if (nrm > HIL_EPS) hil_vec_scale_inplace(row, 1/nrm)
Renormalize(row) ==
    IF SumSq(row) > 0 THEN [c \in DOMAIN row |-> [row[c] EXCEPT !.nsq = SumSq(row)]]
    ELSE row

\* one iteration of the row loop of hil_field_perturb without the sign pattern
PerturbRowSameSign(cells, cols, r, epsilon) ==
    LET row == Renormalize([c \in 1..cols |->
                   [Row(cells, cols, r)[c] EXCEPT !.num = @ + epsilon]])
    IN  [i \in DOMAIN cells |->
            IF i > r * cols /\ i <= (r + 1) * cols THEN row[i - r * cols]
            ELSE cells[i]]

\* one iteration of the row loop of hil_field_perturb
PerturbRow(cells, cols, r, epsilon) ==
    LET row == Renormalize(AddPattern(Row(cells, cols, r), cols, r, epsilon))
    IN  [i \in DOMAIN cells |->
            IF i > r * cols /\ i <= (r + 1) * cols THEN row[i - r * cols]
            ELSE cells[i]]

\* the model's numbers hold the outcome of the perturbation: adding a
\* non-zero epsilon needs rows that were not rescaled before
InModel(fp, epsilon) ==
    IF fp = "NULL" \/ Empty(f) \/ epsilon = 0 THEN TRUE
    ELSE \A i \in DOMAIN mem[f.data].cells : mem[f.data].cells[i].nsq = 1

\* hil_field_mean_norm
hil_field_mean_norm(fp, M, m) ==
    IF fp = "NULL" THEN DZero
    ELSE IF Empty(M) THEN DZero
    ELSE [k |-> "mean_norm", rows |-> M.rows,
          norms |-> [r \in 1..M.rows |-> NormSq(Row(m[M.data].cells, M.cols, r - 1))]]

----------------------------------------------------------------------------
(* hil_field_coherence: entered from a caller's call or from stability;    *)
(* co.back is where it returns to                                          *)

\* entry: if (!field) return 0.0; M = field->coordinates; if (empty) return 0.0;
CoEnter(fp, back) ==
    IF fp = "NULL" \/ Empty(FieldAt(fp))
    THEN /\ co' = [CoIdle EXCEPT !.field = fp, !.back = back, !.val = DZero]
         /\ pc' = back
    ELSE /\ co' = [CoIdle EXCEPT !.field = fp, !.back = back]
         /\ pc' = "co_alloc"

CallCoherence ==
    /\ Begin
    /\ \E fp \in {"NULL", "f"} : CoEnter(fp, "co_done")
    /\ ret' = NoRet /\ answers' = <<>> /\ hs' = NoStat
    /\ UNCHANGED <<g, f, vec, mat, mem, fault, cc, en, pt, st, det>>

CoFrame == UNCHANGED <<g, f, vec, mat, cc, en, pt, st, ret, det, snap>>

\* double *centroid = malloc(sizeof(double) * M.cols); if (!centroid) return 0.0;
CoAlloc ==
    /\ pc = "co_alloc"
    /\ LET M == FieldAt(co.field) IN
       \E ans \in AllocAnswers(M.cols) :
        /\ SetHeap(AllocH(HeapNow, "centroid", ans, Fill(M.cols, UninitC)))
        /\ answers' = Append(answers, ans)
        /\ IF ans # "buf"
           THEN co' = [co EXCEPT !.val = DZero] /\ pc' = co.back
           ELSE co' = [co EXCEPT !.centroid = "centroid"] /\ pc' = "co_body"
        /\ CoFrame

\* hil_vec_zero(centroid); the centroid, the norms and the cosines: the mean
\* cosine is a function of the matrix read and of the zeroed accumulator
CoBody ==
    /\ pc = "co_body"
    /\ LET M == FieldAt(co.field)
           tags == Bad(mem, M.data, M.rows * M.cols - 1)
                   \cup Bad(mem, co.centroid, M.cols - 1)
       IN  IF tags # {} THEN Crash(tags)
           ELSE LET zeroed == hil_vec_zero(mem[co.centroid].cells, M.cols) IN
                \E acc \in Reads(zeroed) :
                    /\ mem' = [mem EXCEPT ![co.centroid].cells = zeroed]
                    /\ co' = [co EXCEPT !.val =
                                [k |-> "coherence", rows |-> M.rows, cols |-> M.cols,
                                 data |-> SubSeq(mem[M.data].cells, 1, M.rows * M.cols),
                                 acc |-> acc]]
                    /\ pc' = "co_free"
                    /\ UNCHANGED <<hs, fault, answers>>
                    /\ CoFrame

\* free(centroid); return sum_cos / (double)M.rows;
CoFree ==
    /\ pc = "co_free"
    /\ SetHeap(FreeH(HeapNow, co.centroid))
    /\ pc' = co.back
    /\ UNCHANGED <<co, answers>>
    /\ CoFrame

\* the caller's call of hil_field_coherence returns
CoDone ==
    /\ pc = "co_done"
    /\ Finish("coherence", co.field, co.val, answers)
    /\ UNCHANGED <<g, f, vec, mat, mem, hs, fault, snap>>

CoherenceStep == CoAlloc \/ CoBody \/ CoFree \/ CoDone

\* a call of hil_field_mean_norm(fp)
CallMeanNorm ==
    /\ Begin
    /\ \E fp \in {"NULL", "f"} :
        Finish("mean_norm", fp, hil_field_mean_norm(fp, f, mem), <<>>)
    /\ hs' = NoStat
    /\ UNCHANGED <<g, f, vec, mat, mem, fault>>

----------------------------------------------------------------------------
(* hil_field_perturb: entered from a caller's call or from stability       *)

Epsilons == {0, 1, 2}

CallPerturb ==
    /\ Begin
    /\ \E fp \in {"NULL", "f"}, epsilon \in Epsilons :
        /\ InModel(fp, epsilon)
        /\ IF fp = "NULL" \/ Empty(f)
           THEN /\ Finish("perturb", <<fp, epsilon>>, 0, <<>>)
                /\ hs' = NoStat
                /\ UNCHANGED <<g, f, vec, mat, mem, fault>>
           ELSE /\ pt' = [field |-> fp, back |-> "pt_done", epsilon |-> epsilon,
                          r |-> 0]
                /\ pc' = "pt_row"
                /\ ret' = NoRet /\ answers' = <<>> /\ hs' = NoStat
                /\ UNCHANGED <<g, f, vec, mat, mem, fault, cc, en, co, st, det>>

\* one iteration of for (r = 0; r < M.rows; r++)
PtRow ==
    /\ pc = "pt_row"
    /\ LET M == FieldAt(pt.field)
           tags == Bad(mem, M.data, (pt.r + 1) * M.cols - 1)
       IN  IF tags # {} THEN Crash(tags)
           ELSE /\ mem' = [mem EXCEPT ![M.data].cells =
                              PerturbRow(@, M.cols, pt.r, pt.epsilon)]
                /\ pt' = [pt EXCEPT !.r = @ + 1]
                /\ pc' = IF pt.r + 1 = M.rows THEN pt.back ELSE "pt_row"
                /\ UNCHANGED <<g, f, vec, mat, cc, en, co, st, ret, hs, fault,
                               answers, det, snap>>

\* the caller's call of hil_field_perturb returns
PtDone ==
    /\ pc = "pt_done"
    /\ Finish("perturb", <<pt.field, pt.epsilon>>, 0, answers)
    /\ UNCHANGED <<g, f, vec, mat, mem, hs, fault, snap>>

PerturbStep == PtRow \/ PtDone

----------------------------------------------------------------------------
(* hil_epistemic_stability                                                 *)

\* const double eps = 1e-6, the unit the coordinates are counted in
StabilityEps == 1

\* hil_field_perturb(field, eps): the perturbation applied to the caller's field
PerturbCaller == "f"

\* hil_field_perturb(&tmp, eps): the field the perturbation is applied to
PerturbTarget == "tmp"

CallStability ==
    /\ Begin
    /\ \E fp \in {"NULL", "f"}, gp \in {"NULL", "g"} :
        /\ InModel(fp, StabilityEps)
        /\ IF fp = "NULL"
           THEN /\ Finish("stability", <<fp, gp>>, DZero, <<>>)
                /\ hs' = NoStat
                /\ UNCHANGED <<g, f, vec, mat, mem, fault>>
           ELSE /\ st' = [StIdle EXCEPT !.field = fp, !.graph = gp]
                /\ CoEnter(fp, "st_C0")
                /\ ret' = NoRet /\ answers' = <<>> /\ hs' = NoStat
                /\ UNCHANGED <<g, f, vec, mat, mem, fault, cc, en, pt, det>>

\* C0 = coherence(field) has returned; M = field->coordinates;
\* if (empty) return 0.0; tmp.coordinates.data = malloc(rows * cols);
\* if (!tmp.coordinates.data) return 0.0;
StC0 ==
    /\ pc = "st_C0"
    /\ IF Empty(f)
       THEN /\ Finish("stability", <<st.field, st.graph>>, DZero, answers)
            /\ UNCHANGED <<g, f, vec, mat, mem, hs, fault, snap>>
       ELSE \E ans \in AllocAnswers(f.rows * f.cols) :
            /\ SetHeap(AllocH(HeapNow, "T", ans, Fill(f.rows * f.cols, UninitC)))
            /\ IF ans # "buf"
               THEN /\ Finish("stability", <<st.field, st.graph>>, DZero,
                              Append(answers, ans))
                    /\ UNCHANGED <<g, f, vec, mat, snap>>
               ELSE /\ st' = [st EXCEPT !.C0 = co.val,
                                        !.tmp = [data |-> "T", rows |-> f.rows,
                                                 cols |-> f.cols]]
                    /\ co' = CoIdle
                    /\ pc' = "st_copy"
                    /\ answers' = Append(answers, ans)
                    /\ UNCHANGED <<g, f, vec, mat, cc, en, pt, ret, det, snap>>

\* memcpy(tmp.coordinates.data, M.data, ...); hil_field_perturb(&tmp, eps);
StCopy ==
    /\ pc = "st_copy"
    /\ LET n == f.rows * f.cols
           tags == Bad(mem, f.data, n - 1) \cup Bad(mem, st.tmp.data, n - 1)
       IN  IF tags # {} THEN Crash(tags)
           ELSE /\ mem' = [mem EXCEPT ![st.tmp.data].cells =
                              SubSeq(mem[f.data].cells, 1, n)]
                /\ pt' = [field |-> PerturbTarget, back |-> "st_C1",
                          epsilon |-> StabilityEps, r |-> 0]
                /\ pc' = "pt_row"
                /\ UNCHANGED <<g, f, vec, mat, cc, en, co, st, ret, hs, fault,
                               answers, det, snap>>

\* C1 = hil_field_coherence(&tmp);
StC1 ==
    /\ pc = "st_C1"
    /\ CoEnter("tmp", "st_free")
    /\ pt' = PtIdle
    /\ UNCHANGED <<g, f, vec, mat, mem, cc, en, st, ret, hs, fault, answers,
                   det, snap>>

\* hil_field_free(&tmp); return fabs(C1 - C0) / eps;
StFree ==
    /\ pc = "st_free"
    /\ LET r == hil_field_free(HeapNow, "tmp", st.tmp) IN
       /\ SetHeap(r.heap)
       /\ Finish("stability", <<st.field, st.graph>>,
                 [k |-> "stability", C1 |-> co.val, C0 |-> st.C0], answers)
       /\ UNCHANGED <<g, f, vec, mat, snap>>

StabilityStep == StC0 \/ StCopy \/ StC1 \/ StFree

----------------------------------------------------------------------------
(* Specification Spec: the diagnostics called in any order on a validated  *)
(* graph and a field                                                       *)

\* an input graph: the structure and the content of its three arrays
GraphInput(n, sc, dc, w) ==
    [G |-> [num_nodes |-> n, num_edges |-> Len(sc),
            src |-> "S", dst |-> "D", weight |-> "W"],
     S |-> Block(sc), D |-> Block(dc), W |-> Block(Fill(Len(sc), Fin(w)))]

\* a graph of n nodes with no edges and no edge arrays
Bare(n) ==
    [G |-> [ZeroGraph EXCEPT !.num_nodes = n], S |-> NoBlock, D |-> NoBlock,
     W |-> NoBlock]

\* the graphs of section 8 of the specification: five isolated nodes, and
\* two disjoint triangles
Isolated5 == Bare(5)
TwoTriangles == GraphInput(6, <<0, 1, 2, 3, 4, 5>>, <<1, 2, 0, 4, 5, 3>>, 1)

\* every validated graph within the bounds (all edges of one graph share
\* their weight, 0 or 1), the graphs without edge arrays, the examples
Graphs ==
    UNION {{GraphInput(n, sc, dc, w) :
                w \in {0, 1}, sc \in [1..k -> 0..(n - 1)], dc \in [1..k -> 0..(n - 1)]} :
           n \in 1..MaxNodes, k \in 0..MaxEdges}
    \cup {Bare(n) : n \in 0..MaxNodes}
    \cup {Isolated5, TwoTriangles}

\* the input passes hil_graph_validate, or has no nodes
GoodGraph(x) ==
    IF x.G.num_nodes = 0 THEN TRUE
    ELSE hil_graph_validate("g", x.G, [EmptyMem EXCEPT !["S"] = x.S,
                                       !["D"] = x.D, !["W"] = x.W]) = 1

CoordVals == {-1, 0, 1}

\* an input field: the structure and the content of its buffer
FieldInput(r, c, p, cells) ==
    [M |-> [data |-> p, rows |-> r, cols |-> c], F |-> BlockOf(p, cells)]

Fields ==
    UNION {{FieldInput(r, c, "F", [i \in 1..(r * c) |-> Coord(xs[i])]) :
                xs \in [1..(r * c) -> CoordVals]} :
           r \in 0..MaxRows, c \in 0..MaxCols}
    \cup {FieldInput(r, c, "NULL", <<>>) : r \in 0..MaxRows, c \in 0..MaxCols}

\* the graph beside the fields, the field beside the graphs
OneEdge == GraphInput(2, <<0>>, <<1>>, 1)
NoField == FieldInput(0, 0, "NULL", <<>>)

\* the inputs of Spec
Inputs == (Graphs \X {NoField}) \cup ({OneEdge} \X Fields)

\* the state after the caller built one of the inputs Z; d is the
\* bookkeeping of the watched diagnostic
InitOn(Z, d) ==
    /\ \E z \in Z :
        LET x == z[1]
            y == z[2]
        IN
        /\ GoodGraph(x)
        /\ g = x.G /\ f = y.M
        /\ mem = [EmptyMem EXCEPT !["S"] = x.S, !["D"] = x.D, !["W"] = x.W,
                                  !["F"] = y.F]
    /\ vec = ZeroVector /\ mat = ZeroMatrix
    /\ IdleLocals
    /\ det = d
    /\ snap = Caller(g, f, vec, mat, mem)

Init == InitOn(Inputs, DetOff)

Next ==
    \/ CallValidate \/ CallDensity
    \/ CallComponents \/ ComponentsStep
    \/ CallEntropy \/ EntropyStep
    \/ CallCoherence \/ CoherenceStep
    \/ CallMeanNorm
    \/ CallPerturb \/ PerturbStep
    \/ CallStability \/ StabilityStep

Spec == Init /\ [][Next]_vars

----------------------------------------------------------------------------
(* Specification SpecDet: as Spec on fewer inputs, the first result of one *)
(* diagnostic kept and compared with the results of its later calls        *)

DetNodes == 2
DetEdges == 1
DetCells == 1

Watched == {"components", "entropy", "coherence", "stability"}

DetInputs ==
    ({x \in Graphs : x.G.num_nodes <= DetNodes /\ x.G.num_edges <= DetEdges}
        \X {NoField})
    \cup ({OneEdge} \X {y \in Fields : y.M.rows * y.M.cols <= DetCells})

InitDet ==
    \E w \in Watched : InitOn(DetInputs, [DetOff EXCEPT !.on = TRUE, !.watch = w])

SpecDet == InitDet /\ [][Next]_vars

----------------------------------------------------------------------------
(* Specification SpecLife: the release operations on structures the caller *)
(* populated, in any order and any number of times                         *)

\* a populated hil_vector_t and its buffer
Vectors ==
    {[s |-> [data |-> p, length |-> n], V |-> BlockOf(p, Fill(n, Fin(1)))] :
        p \in {"NULL", "V"}, n \in 0..MaxLen}

\* a populated hil_matrix_t and its buffer
Matrices ==
    {[s |-> [data |-> p, rows |-> r, cols |-> c],
      M |-> BlockOf(p, Fill(r * c, Fin(1)))] :
        p \in {"NULL", "M"}, r \in {0, MaxRows}, c \in {0, MaxCols}}

LifeGraphs == {Bare(0), Bare(MaxNodes), OneEdge}
LifeFields ==
    {FieldInput(r, 0, p, <<>>) : r \in {0, MaxRows}, p \in {"NULL", "F"}}
    \cup {FieldInput(1, 1, "F", <<Coord(1)>>)}

InitLife ==
    /\ \E x \in LifeGraphs, y \in LifeFields, v \in Vectors, z \in Matrices :
        /\ g = x.G /\ f = y.M /\ vec = v.s /\ mat = z.s
        /\ mem = [EmptyMem EXCEPT !["S"] = x.S, !["D"] = x.D, !["W"] = x.W,
                                  !["F"] = y.F, !["V"] = v.V, !["M"] = z.M]
    /\ IdleLocals
    /\ det = DetOff
    /\ snap = Caller(g, f, vec, mat, mem)

\* the heap a call starts with: its counts of allocations and frees at 0
HeapAtCall == [HeapNow EXCEPT !.hs = NoStat]

\* a call of hil_vector_free(vp)
CallVectorFree ==
    /\ Begin
    /\ \E vp \in {"NULL", "vec"} :
        LET r == hil_vector_free(HeapAtCall, vp, vec) IN
        /\ SetHeap(r.heap)
        /\ vec' = r.s
        /\ Finish("vector_free", vp, 0, <<>>)
    /\ UNCHANGED <<g, f, mat>>

\* a call of hil_matrix_free(mp)
CallMatrixFree ==
    /\ Begin
    /\ \E mp \in {"NULL", "mat"} :
        LET r == hil_matrix_free(HeapAtCall, mp, mat) IN
        /\ SetHeap(r.heap)
        /\ mat' = r.s
        /\ Finish("matrix_free", mp, 0, <<>>)
    /\ UNCHANGED <<g, f, vec>>

\* a call of hil_graph_free(gp)
CallGraphFree ==
    /\ Begin
    /\ \E gp \in {"NULL", "g"} :
        LET r == hil_graph_free(HeapAtCall, gp, g) IN
        /\ SetHeap(r.heap)
        /\ g' = r.s
        /\ Finish("graph_free", gp, 0, <<>>)
    /\ UNCHANGED <<f, vec, mat>>

\* a call of hil_field_free(fp)
CallFieldFree ==
    /\ Begin
    /\ \E fp \in {"NULL", "f"} :
        LET r == hil_field_free(HeapAtCall, fp, f) IN
        /\ SetHeap(r.heap)
        /\ f' = r.s
        /\ Finish("field_free", fp, 0, <<>>)
    /\ UNCHANGED <<g, vec, mat>>

NextLife == CallVectorFree \/ CallMatrixFree \/ CallGraphFree \/ CallFieldFree

SpecLife == InitLife /\ [][NextLife]_vars

----------------------------------------------------------------------------
(* Connected components (claims C2, C3)                                    *)

\* the nodes one edge away from a node of S, the graph read as undirected
Neighbours(S) ==
    {u \in 0..(g.num_nodes - 1) :
        \E e \in 0..(g.num_edges - 1) :
            \/ SrcAt(g, mem, e) \in S /\ DstAt(g, mem, e) = u
            \/ DstAt(g, mem, e) \in S /\ SrcAt(g, mem, e) = u}

\* the nodes connected to a node of S
RECURSIVE Closure(_)
Closure(S) ==
    IF Neighbours(S) \subseteq S THEN S ELSE Closure(S \cup Neighbours(S))

\* the number of connected components of g
NumComponents == Cardinality({Closure({v}) : v \in 0..(g.num_nodes - 1)})

\* every request of the call was answered with a buffer
AllSucceeded == \A i \in DOMAIN answers : answers[i] = "buf"

\* no request of the call failed for lack of memory
NoneOutOfMemory == \A i \in DOMAIN answers : answers[i] # "oom"

\* hil_graph_connected_components has returned for a present graph with nodes
ComponentsReturned ==
    pc = "idle" /\ ret.op = "components" /\ ret.arg = "g" /\ g.num_nodes > 0

\* C2: for every graph accepted by hil_graph_validate, when every internal
\* allocation succeeds, hil_graph_connected_components returns the number of
\* connected components of the graph read as undirected.
C2_Components ==
    ComponentsReturned /\ AllSucceeded => ret.val = NumComponents

\* two disjoint triangles have two components
C2_Witness ==
    /\ ComponentsReturned /\ AllSucceeded
    /\ g.num_nodes = 6 /\ g.num_edges = 6
    /\ ret.val = 2

\* C3: hil_graph_connected_components returns 0 only when the graph is absent
\* or num_nodes == 0: for a present graph with num_nodes > 0, no allocation
\* failing for lack of memory, the result is at least 1, and it is n for n
\* isolated nodes and no edges (the adjacency buffer requested has length 0).
C3_ZeroOnlyWhenEmpty ==
    ComponentsReturned /\ NoneOutOfMemory =>
        /\ ret.val >= 1
        /\ g.num_edges = 0 => ret.val = g.num_nodes

----------------------------------------------------------------------------
(* Stability and the caller's field (claim C5)                             *)

\* hil_epistemic_stability is running, or was the last call to return
InStability == st.field # "NULL" \/ ret.op = "stability"

\* C5: hil_epistemic_stability never modifies or frees the caller's field: on
\* every path the caller's rows, cols, data pointer and every coordinate are
\* the same during and after the call as before it.
C5_StabilityFrame ==
    InStability =>
        /\ f = snap.f
        /\ mem["F"] = snap.mem["F"]
        /\ "use after free" \notin fault /\ "double free" \notin fault

\* a call that perturbed its private copy and released it
C5_Witness ==
    /\ pc = "idle" /\ ret.op = "stability"
    /\ ret.val.k = "stability"
    /\ mem["F"].live /\ ~mem["T"].live
    /\ Len(answers) = 3

----------------------------------------------------------------------------
(* Transient buffers (claim C6)                                            *)

Allocating == {"components", "entropy", "coherence", "stability"}

\* the number of requests of the call answered with a buffer
RECURSIVE Granted(_)
Granted(as) ==
    IF as = <<>> THEN 0
    ELSE (IF Head(as) = "buf" THEN 1 ELSE 0) + Granted(Tail(as))

\* C6: in hil_graph_connected_components, hil_graph_entropy,
\* hil_field_coherence and hil_epistemic_stability every buffer the call
\* allocates is released exactly once before the call returns, on every exit
\* path and for every combination of allocation successes and failures: no
\* leak, no double free, no use after free.
C6_Released ==
    /\ fault = {} /\ pc # "fault"
    /\ pc = "idle" /\ ret.op \in Allocating =>
          /\ \A b \in CallBlocks : ~mem[b].live
          /\ hs.nalloc = Granted(answers)
          /\ hs.nfree = hs.nalloc

\* connected components gave up at its last allocation, five buffers granted
C6_Witness ==
    /\ pc = "idle" /\ ret.op = "components"
    /\ Len(answers) = 6 /\ answers[6] = "oom" /\ answers[5] = "buf"
    /\ hs.nfree = 5

----------------------------------------------------------------------------
(* Perturbation (claim C9)                                                 *)

\* + for an even flattened index, - for an odd one
SignOf(idx) == IF idx % 2 = 0 THEN 1 ELSE -1

\* C9: hil_field_perturb is all-or-nothing: for an absent field or an empty
\* matrix no coordinate and no descriptor changes; otherwise every coordinate
\* at flattened index idx = row*cols + col of every row receives
\* epsilon*det_sign(idx), and the call never returns after transforming only
\* some rows; rows, cols and the data pointer are unchanged in both cases.
C9_Perturb ==
    /\ pc = "pt_done" => pt.r = f.rows
    /\ pc = "idle" /\ ret.op = "perturb" =>
        LET fp == ret.arg[1]
            epsilon == ret.arg[2]
        IN  /\ f = snap.f
            /\ \A b \in CallerBlocks \ {"F"} : mem[b] = snap.mem[b]
            /\ IF fp = "NULL" \/ Empty(f) THEN mem["F"] = snap.mem["F"]
               ELSE /\ mem["F"].live
                    /\ Len(mem["F"].cells) = Len(snap.mem["F"].cells)
                    /\ \A r \in 0..(f.rows - 1), c \in 0..(f.cols - 1) :
                        LET idx == r * f.cols + c IN
                        mem["F"].cells[idx + 1].num =
                            snap.mem["F"].cells[idx + 1].num + epsilon * SignOf(idx)

\* a field of more than one row and column perturbed by a non-zero epsilon
C9_Witness ==
    /\ pc = "idle" /\ ret.op = "perturb"
    /\ ret.arg[1] = "f" /\ ret.arg[2] # 0
    /\ f.rows > 1 /\ f.cols > 1 /\ f.data # "NULL"
    /\ mem["F"] # snap.mem["F"]

----------------------------------------------------------------------------
(* Degenerate inputs (claim C11)                                           *)

\* the sum of the weights of the edges from e on, in whole units
RECURSIVE WeightFrom(_)
WeightFrom(e) ==
    IF e >= g.num_edges THEN 0 ELSE WeightAt(g, mem, e).v + WeightFrom(e + 1)

\* the graph handed to a call is degenerate for hil_graph_entropy
DegenerateGraph(gp) ==
    IF gp = "NULL" \/ g.num_nodes = 0 \/ g.num_edges = 0 THEN TRUE
    ELSE 2 * WeightFrom(0) <= 0

\* the field handed to a call is absent or its matrix is empty
DegenerateField(fp) ==
    fp = "NULL" \/ f.data = "NULL" \/ f.rows = 0 \/ f.cols = 0

\* C11: degenerate inputs yield the neutral value 0 and never a fault:
\* hil_graph_entropy returns exactly 0 for an absent graph, num_nodes == 0, no
\* edges or a total weighted degree <= EPS; hil_field_mean_norm,
\* hil_field_coherence and hil_epistemic_stability return exactly 0 for an
\* absent field or a matrix with data absent, rows == 0 or cols == 0.
C11_Degenerate ==
    /\ pc # "fault" /\ fault = {}
    /\ pc = "idle" /\ ret.op = "entropy" /\ DegenerateGraph(ret.arg)
          => ret.val = DZero
    /\ pc = "idle" /\ ret.op \in {"mean_norm", "coherence"}
          /\ DegenerateField(ret.arg) => ret.val = DZero
    /\ pc = "idle" /\ ret.op = "stability" /\ DegenerateField(ret.arg[1])
          => ret.val = DZero

\* entropy of a graph whose edges all weigh 0, the degree buffer granted
C11_Witness ==
    /\ pc = "idle" /\ ret.op = "entropy" /\ ret.arg = "g"
    /\ g.num_edges > 0 /\ WeightFrom(0) = 0
    /\ answers = <<"buf">>
    /\ ret.val = DZero

----------------------------------------------------------------------------
(* Buffer bounds of degree and connected components (claim C12)            *)

\* the cells hil_graph_degree reads or writes: <<buffer, index>>
DegreeAccesses(G, m) ==
    {<<"out", i>> : i \in 0..(G.num_nodes - 1)}
    \cup UNION {{<<"src", e>>, <<"dst", e>>, <<"weight", e>>,
                 <<"out", SrcAt(G, m, e)>>, <<"out", DstAt(G, m, e)>>} :
                e \in 0..(G.num_edges - 1)}

\* the access lies in its buffer: the edge arrays of num_edges cells, the
\* out_degree buffer of the caller
InBuffer(a, out) ==
    /\ a[2] >= 0
    /\ IF a[1] = "out" THEN a[2] < g.num_nodes /\ a[2] < Len(mem[out].cells)
       ELSE a[2] < g.num_edges

\* the edge loops read the edge arrays below num_edges only
EdgeReadsInside ==
    pc \in {"cc_count", "cc_fill"} =>
        /\ cc.e < cc.m
        /\ cc.m <= Len(mem[g.src].cells) /\ cc.m <= Len(mem[g.dst].cells)
        /\ SrcAt(g, mem, cc.e) < cc.n /\ DstAt(g, mem, cc.e) < cc.n

\* the fill has written adj exactly at the first cur[v] positions of
\* [offset[v], offset[v+1]) for every node v, and ends with cur[v] == deg[v]
FillInside ==
    pc \in {"cc_fill", "cc_freecur"} =>
        /\ Len(mem[cc.adj].cells) = Cell(mem, cc.offset, cc.n)
        /\ \A v \in 0..(cc.n - 1) :
            /\ Cell(mem, cc.cur, v) <= Cell(mem, cc.deg, v)
            /\ Cell(mem, cc.offset, v + 1) =
                   Cell(mem, cc.offset, v) + Cell(mem, cc.deg, v)
            /\ \A k \in Cell(mem, cc.offset, v)..(Cell(mem, cc.offset, v + 1) - 1) :
                   (Cell(mem, cc.adj, k) # Uninit)
                       <=> (k < Cell(mem, cc.offset, v) + Cell(mem, cc.cur, v))
            /\ pc = "cc_freecur" => Cell(mem, cc.cur, v) = Cell(mem, cc.deg, v)

\* the search reads seen below num_nodes only and holds every node at most
\* once in the queue, whose tail stays within num_nodes
SearchInside ==
    pc \in {"cc_outer", "cc_while", "cc_inner"} =>
        /\ cc.qh <= cc.qt /\ cc.qt <= cc.n
        /\ Len(mem[cc.queue].cells) = cc.n /\ Len(mem[cc.seen].cells) = cc.n
        /\ \A k \in 0..(Len(mem[cc.adj].cells) - 1) :
               Cell(mem, cc.adj, k) \in 0..(cc.n - 1)
        /\ \A i \in 0..(cc.qt - 1) :
            /\ Cell(mem, cc.queue, i) \in 0..(cc.n - 1)
            /\ Cell(mem, cc.seen, Cell(mem, cc.queue, i)) = 1
            /\ \A j \in 0..(cc.qt - 1) :
                   i # j => Cell(mem, cc.queue, i) # Cell(mem, cc.queue, j)
        /\ pc = "cc_inner" =>
               cc.v < cc.n /\ cc.k <= Cell(mem, cc.offset, cc.v + 1)

\* C12: for every graph accepted by hil_graph_validate, hil_graph_degree and
\* hil_graph_connected_components stay within their buffers in every
\* reachable step: edge arrays are read below num_edges, out_degree, deg and
\* seen below num_nodes, the fill writes adj only inside
\* [offset[v], offset[v+1]) and ends with cur[v] == deg[v], and the search
\* enqueues each node at most once, the queue tail never exceeding num_nodes.
C12_InBounds ==
    /\ "out of bounds" \notin fault /\ "uninitialised read" \notin fault
    /\ pc = "en_sum" => \A a \in DegreeAccesses(g, mem) : InBuffer(a, en.deg)
    /\ EdgeReadsInside
    /\ FillInside
    /\ SearchInside

\* the search has every node of a graph of three or more nodes in its queue
C12_Witness ==
    /\ pc = "cc_inner"
    /\ cc.n > 2 /\ cc.m > 2
    /\ cc.qt = cc.n /\ cc.qh = cc.n
    /\ fault = {}

----------------------------------------------------------------------------
(* Determinism (claim C4), under SpecDet                                   *)

\* the watched diagnostic has returned again, for the argument and on the
\* structures and blocks of the call whose result was kept
SameCall ==
    /\ det.have /\ det.again
    /\ pc = "idle" /\ ret.op = det.watch /\ ret.arg = det.arg
    /\ Caller(g, f, vec, mat, mem) = det.inp

----------------------------------------------------------------------------
(* Release (claim C7), under SpecLife                                      *)

Releases == {"vector_free", "matrix_free", "graph_free", "field_free"}

\* the structure a release was called on, and the blocks it points to
Released(op) ==
    IF op = "vector_free" THEN [now |-> vec, was |-> snap.vec, zero |-> ZeroVector,
                                ptrs |-> {snap.vec.data}]
    ELSE IF op = "matrix_free" THEN [now |-> mat, was |-> snap.mat,
                                     zero |-> ZeroMatrix, ptrs |-> {snap.mat.data}]
    ELSE IF op = "graph_free" THEN [now |-> g, was |-> snap.g, zero |-> ZeroGraph,
                                    ptrs |-> {snap.g.src, snap.g.dst, snap.g.weight}]
    ELSE [now |-> f, was |-> snap.f, zero |-> ZeroMatrix, ptrs |-> {snap.f.data}]

\* C7: each release operation leaves the structure with all buffer pointers
\* absent and all sizes and counts 0; a further release of the same structure
\* frees nothing and changes nothing, and no buffer is ever freed twice.
C7_Release ==
    /\ "double free" \notin fault
    /\ ret.op \in Releases /\ ret.arg # "NULL" =>
        LET x == Released(ret.op) IN
        /\ x.now = x.zero
        /\ \A p \in x.ptrs \ {"NULL"} : ~mem[p].live
        /\ hs.nfree = Cardinality(x.ptrs \ {"NULL"})
        /\ x.was = x.zero =>
              /\ hs.nfree = 0
              /\ Caller(g, f, vec, mat, mem) = snap

\* a second release of a graph whose three arrays the first one freed
C7_Witness ==
    /\ ret.op = "graph_free" /\ ret.arg = "g"
    /\ snap.g = ZeroGraph
    /\ ~mem["S"].live /\ ~mem["D"].live /\ ~mem["W"].live
    /\ vec = ZeroVector /\ ~mem["V"].live

====
